---- MODULE Spec2Model ----
(***************************************************************************)
(* State-machine model of the device session layer of the soldering        *)
(* station client: pc_app/main.py ConnectionManager (connect_serial,       *)
(* connect_wifi, disconnect, send_command) and DataLogger (run, stop),     *)
(* driven by the foreground (GUI) thread and the DataLogger thread.        *)
(*                                                                         *)
(* Shared attributes are read and written one statement at a time, so the  *)
(* two threads interleave between the attribute accesses of a method.      *)
(***************************************************************************)
EXTENDS Integers, Sequences, FiniteSets, TLC

\* ---- bounds of the model ------------------------------------------------
MaxHandles == 1      \* serial ports the environment lets the program open
MaxSamples == 2      \* status payloads the device answers with
MaxRx == 1           \* lines the device leaves unread in the serial buffer

\* ---- values ---------------------------------------------------------------
None == 0                                   \* serial_conn = None (handles are 1, 2, ...)
NoIp == "None"                              \* wifi_ip = None
NoType == "None"                            \* connection_type = None
Threads == {"gui", "poller"}
Hosts == {"192.168.4.1"}                    \* addresses given to connect_wifi
Endpoints == {"start", "stop", "fan", "preset"}

\* Python values returned by send_command: None, a decoded JSON value, a line.
PyNone == [kind |-> "none", n |-> 0, for |-> "-"]
JsonDict(n, t) == [kind |-> "dict", n |-> n, for |-> t]   \* n = 0: the empty dict {}
JsonList(t) == [kind |-> "list", n |-> 1, for |-> t]      \* a non-dict JSON value
Line(n, t) == [kind |-> "str", n |-> n, for |-> t]        \* n = 0: the empty string
Truthy(v) == v.kind # "none" /\ v.n # 0

VARIABLES
    connection_type,  \* ConnectionManager.connection_type
    serial_conn,      \* ConnectionManager.serial_conn (handle id or None)
    wifi_ip,          \* ConnectionManager.wifi_ip (host or None)
    connected,        \* ConnectionManager.connected
    nOpened,          \* serial handles opened so far (handle ids are 1..nOpened)
    closed,           \* serial handles on which close() was called
    okHosts,          \* hosts whose GET /status probe returned HTTP 200
    rx,               \* lines waiting in the serial receive buffer
    devSeq,           \* status payloads the device has produced
    sc,               \* per thread: the frame of its send_command call
    gpc,              \* foreground thread: position in the current handler
    garg,             \* foreground thread: argument of the current handler
    ppc,              \* DataLogger thread: position in run()
    running,          \* DataLogger.running
    status,           \* DataLogger.run local `status`
    log_data,         \* DataLogger.log_data
    emitted,          \* samples emitted on data_received, in order
    stopped,          \* stop() has returned since logging was last started
    failed,           \* the poll before this one returned no sample
    dclosed,          \* handles closed by the disconnect call in progress
    fresh,            \* handle opened by the connect call that returned True last,
                      \* while no other connect or disconnect has returned since
    file,             \* export_log: the destination file of the export
    xi,               \* export_log: position of the iteration over log_data
    xlog,             \* export_log: log_data as it was when the export began
    xres,             \* export_log: how the last export ended
    profile_name,     \* profile_name_input.text()
    temp_limit,       \* temp_limit_spin.value()
    phases,           \* the phase widgets held by phases_layout, in order
    preset,           \* the profile JSON the device answers GET /preset with
    msg,              \* outcome of the last profile handler (message box or exception)
    sent,             \* the profile JSON the device received with the last save
    saved,            \* the form as it was at the last successful save, unedited since
    before,           \* the form as it was when load_profile was last called
    got,              \* the profile JSON the last load_profile received
    conn_type,        \* app_py Connection.connection_type
    conn_serial,      \* app_py Connection.serial_conn
    wifi_conn,        \* app_py Connection.wifi_conn
    top_temp,         \* Temperature.top_temp
    bottom_temp,      \* Temperature.bottom_temp
    preheat_temp,     \* Temperature.preheat_temp
    inbuf,            \* lines the station has sent that the program has not read
    apc,              \* app_py window: position in connect_to_station
    upd,              \* whether the station's answer was all there was to read
                      \* in the last temperature update of the window
    io                \* the last soldering handler and what its send() calls did

session == <<connection_type, serial_conn, wifi_ip, connected>>
transport == <<nOpened, closed, okHosts, rx, devSeq>>
gui == <<gpc, garg>>
logger == <<ppc, running, status, log_data, emitted, stopped, failed>>
ghost == <<dclosed, fresh>>
export == <<file, xi, xlog, xres>>
profile == <<profile_name, temp_limit, phases, preset, msg, sent, saved, before, got>>
temps == <<top_temp, bottom_temp, preheat_temp>>
station == <<conn_type, conn_serial, wifi_conn, temps, inbuf, apc, upd, io>>
aux == <<export, profile, station>>                   \* state outside ConnectionManager / DataLogger
vars == <<session, transport, sc, gui, logger, ghost, aux>>

NoCall == [pc |-> "none", endpoint |-> "-", ip |-> NoIp, ret |-> PyNone]
NoFresh == <<>>                             \* no such connect call
\* the destination file: created or not, header line written or not, rows
NoFile == [exists |-> FALSE, header |-> FALSE, rows |-> <<>>]

\* the state of the parts that a specification does not exercise
ExportInit ==
    /\ file = NoFile
    /\ xi = 0
    /\ xlog = <<>>
    /\ xres = "-"

\* ---- the profile form and the profile JSON (profiles tab) -----------------
MaxPhases == 2       \* phase widgets the form holds at most
LimitMin == 100      \* temp_limit_spin.setRange(100, 400)
LimitMax == 400
LimitDefault == 280  \* temp_limit_spin.setValue(280); .get('overLimitC', 280)
Names == {"Lead-Free BGA", "SnPb"}          \* texts of profile_name_input
Limits == {LimitDefault, 300}               \* values of temp_limit_spin

\* phase_data as init_default_phases writes it (Kp in 1/100, Ki in 1/1000:
\* the spin boxes keep 2 and 3 decimals)
Preheat ==
    [name |-> "Preheat", target |-> 165, duration |-> 90, kp |-> 200, ki |-> 80,
     use_top |-> TRUE, use_bottom |-> TRUE, use_ir |-> TRUE]
Reflow ==
    [name |-> "Reflow", target |-> 255, duration |-> 30, kp |-> 250, ki |-> 100,
     use_top |-> TRUE, use_bottom |-> FALSE, use_ir |-> FALSE]
NewPhase ==
    [name |-> "New phase", target |-> 150, duration |-> 60, kp |-> 200, ki |-> 80,
     use_top |-> TRUE, use_bottom |-> TRUE, use_ir |-> TRUE]

\* lines 515-522: the widget that add_phase_widget is written to build from
\* phase_data, named by the attributes it stores on phase_widget
PhaseWidget(d) ==
    [name_input |-> d.name, target_spin |-> d.target, duration_spin |-> d.duration,
     kp_spin |-> d.kp, ki_spin |-> d.ki, use_top_check |-> d.use_top,
     use_bottom_check |-> d.use_bottom, use_ir_check |-> d.use_ir]
Widgets == {PhaseWidget(Preheat), PhaseWidget(Reflow)}

\* lines 639-648: the JSON object save_profile builds from one phase widget
PhaseJson(w) ==
    [name |-> w.name_input, targetC |-> w.target_spin, seconds |-> w.duration_spin,
     Kp |-> w.kp_spin, Ki |-> w.ki_spin, useTop |-> w.use_top_check,
     useBottom |-> w.use_bottom_check, useIR |-> w.use_ir_check]

\* lines 630-649: profile_data as save_profile builds it from the form
ProfileJson(name, limit, ws) ==
    [name |-> name, overLimitC |-> limit, n |-> Len(ws),
     phases |-> [i \in 1..Len(ws) |-> PhaseJson(ws[i])]]

\* a JSON object without one of its keys
Without(d, k) == [x \in DOMAIN d \ {k} |-> d[x]]
\* dict.get(k, default)
Get(d, k, default) == IF k \in DOMAIN d THEN d[k] ELSE default
\* QSpinBox.setValue keeps the value inside the range of the spin box
SetValue(v) == IF v < LimitMin THEN LimitMin ELSE IF v > LimitMax THEN LimitMax ELSE v

\* profiles a device may hold before the program saves one: complete ones
\* (without and with a phase) and ones that lack a field
Stored0 == ProfileJson("SnPb", 300, <<>>)
Stored1 == ProfileJson("SnPb", 300, <<PhaseWidget(Reflow)>>)
DevicePresets ==
    {Stored0, Stored1,
     Without(Stored0, "name"), Without(Stored0, "overLimitC"), Without(Stored0, "phases"),
     [Stored1 EXCEPT !.phases = <<Without(PhaseJson(PhaseWidget(Reflow)), "seconds")>>]}

Form == <<profile_name, temp_limit, phases>>
NoJson == <<>>                              \* no JSON value was transferred
NoForm == <<>>                              \* no such form snapshot

\* the form of a window that holds no phase widget, and a device with a
\* complete stored profile (the state of the parts a specification leaves alone)
ProfileInit ==
    /\ profile_name = "Lead-Free BGA"
    /\ temp_limit = LimitDefault
    /\ phases = <<>>
    /\ preset = Stored0
    /\ msg = "-"
    /\ sent = NoJson
    /\ saved = NoForm
    /\ before = NoForm
    /\ got = NoJson

\* ---- the station window of app_py: Connection, Commands, Temperature ------
MaxLine == 3         \* characters of a line the station sends, newline excluded
MaxPending == 1      \* lines the station sends without being asked, unread
Chars == {"1", ","}                         \* a digit and the field separator
LF == "LF"                                  \* the newline that ends a line
Lines == UNION {[1..n -> Chars] : n \in 0..MaxLine}
Reading == <<"1", ",", ",">>                 \* the line the station answers GET_TEMP with
Zero == <<"0">>                             \* the initial value 0 of a temperature
NoHandle == "None"                          \* serial_conn = None, wifi_conn = None

StationInit ==
    /\ conn_type = NoType
    /\ conn_serial = NoHandle
    /\ wifi_conn = NoHandle
    /\ top_temp = Zero
    /\ bottom_temp = Zero
    /\ preheat_temp = Zero
    /\ inbuf = <<>>
    /\ apc = "idle"
    /\ upd = "none"
    /\ io = [handler |-> "-", did |-> "nothing"]

ManagerInit ==
    /\ connection_type = NoType
    /\ serial_conn = None
    /\ wifi_ip = NoIp
    /\ connected = FALSE
    /\ nOpened = 0
    /\ closed = {}
    /\ okHosts = {}
    /\ rx = <<>>
    /\ devSeq = 0
    /\ sc = [t \in Threads |-> NoCall]
    /\ gpc = "idle"
    /\ garg = NoIp
    /\ ppc = "idle"
    /\ running = FALSE
    /\ status = PyNone
    /\ log_data = <<>>
    /\ emitted = <<>>
    /\ stopped = FALSE
    /\ failed = FALSE
    /\ dclosed = {}
    /\ fresh = NoFresh

Init ==
    /\ ManagerInit
    /\ ExportInit
    /\ ProfileInit
    /\ StationInit


\* ---- ConnectionManager.send_command, one step per shared access ---------
Frame(t, pc, ret) == [sc EXCEPT ![t].pc = pc, ![t].ret = ret]
Usable(h) == h # None /\ h \notin closed     \* an open serial handle

\* mutant: the connected check of line 72 is missing
SendCheckMissing(t) ==
    /\ sc[t].pc = "check"
    /\ sc' = Frame(t, "type1", PyNone)
    /\ UNCHANGED <<session, transport, gui, logger, ghost>>
    /\ UNCHANGED aux

\* line 72-73: if not self.connected: return None
SendCheck(t) ==
    /\ sc[t].pc = "check"
    /\ sc' = IF connected THEN Frame(t, "type1", PyNone) ELSE Frame(t, "ret", PyNone)
    /\ UNCHANGED <<session, transport, gui, logger, ghost>>
    /\ UNCHANGED aux

\* line 76: if self.connection_type == 'wifi'
SendIsWifi(t) ==
    /\ sc[t].pc = "type1"
    /\ sc' = IF connection_type = "wifi" THEN Frame(t, "url", PyNone)
                                         ELSE Frame(t, "type2", PyNone)
    /\ UNCHANGED <<session, transport, gui, logger, ghost>>
    /\ UNCHANGED aux

\* line 77: url = f"http://{self.wifi_ip}/{endpoint}"
SendUrl(t) ==
    /\ sc[t].pc = "url"
    /\ sc' = [sc EXCEPT ![t].pc = "request", ![t].ip = wifi_ip]
    /\ UNCHANGED <<session, transport, gui, logger, ghost>>
    /\ UNCHANGED aux

\* lines 78-81: requests.get / requests.post is issued; a url built from
\* wifi_ip = None names no device and the request raises (line 89-91)
SendRequest(t) ==
    /\ sc[t].pc = "request"
    /\ sc' = IF sc[t].ip = NoIp THEN [sc EXCEPT ![t].pc = "ret", ![t].ret = PyNone]
                                ELSE Frame(t, "http_wait", PyNone)
    /\ UNCHANGED <<session, transport, gui, logger, ghost>>
    /\ UNCHANGED aux

\* line 82: return response.json() if response.status_code == 200 else None
\* HTTP 200 carrying a JSON object; status answers are numbered by the device
SendHttpOk(t) ==
    /\ sc[t].pc = "http_wait"
    /\ IF sc[t].endpoint = "status"
         THEN /\ devSeq < MaxSamples
              /\ devSeq' = devSeq + 1
              /\ sc' = [sc EXCEPT ![t].pc = "ret", ![t].ip = NoIp,
                                  ![t].ret = JsonDict(devSeq + 1, t)]
         ELSE /\ devSeq' = devSeq
              /\ sc' = [sc EXCEPT ![t].pc = "ret", ![t].ip = NoIp,
                                  ![t].ret = JsonDict(1, t)]
    /\ UNCHANGED <<session, nOpened, closed, okHosts, rx, gui, logger, ghost>>
    /\ UNCHANGED aux

\* HTTP 200 carrying JSON that is not a non-empty object: {} or a list
SendHttpOdd(t) ==
    /\ sc[t].pc = "http_wait"
    /\ \E v \in {JsonDict(0, t), JsonList(t)} :
           sc' = [sc EXCEPT ![t].pc = "ret", ![t].ip = NoIp, ![t].ret = v]
    /\ UNCHANGED <<session, transport, gui, logger, ghost>>
    /\ UNCHANGED aux

\* mutant: a failed request drops the session (auto-disconnect)
SendHttpFailDisconnects(t) ==
    /\ sc[t].pc = "http_wait"
    /\ sc' = [sc EXCEPT ![t].pc = "ret", ![t].ip = NoIp, ![t].ret = PyNone]
    /\ connected' = FALSE
    /\ UNCHANGED <<connection_type, serial_conn, wifi_ip, transport, gui, logger, ghost>>
    /\ UNCHANGED aux

\* non-200 status, or the request / response.json() raises (timeout, refused,
\* invalid JSON): lines 82 and 89-91 return None
SendHttpFail(t) ==
    /\ sc[t].pc = "http_wait"
    /\ sc' = [sc EXCEPT ![t].pc = "ret", ![t].ip = NoIp, ![t].ret = PyNone]
    /\ UNCHANGED <<session, transport, gui, logger, ghost>>
    /\ UNCHANGED aux

\* line 83: elif self.connection_type == 'serial'; neither branch: falls off
\* the end of the method and returns None
SendIsSerial(t) ==
    /\ sc[t].pc = "type2"
    /\ sc' = IF connection_type = "serial" THEN Frame(t, "write", PyNone)
                                           ELSE Frame(t, "ret", PyNone)
    /\ UNCHANGED <<session, transport, gui, logger, ghost>>
    /\ UNCHANGED aux

\* line 86: self.serial_conn.write(command.encode()). On None (AttributeError)
\* or a closed port (SerialException) the except clause returns None. The
\* device answers the command with one line, or stays silent.
SendWrite(t) ==
    /\ sc[t].pc = "write"
    /\ IF Usable(serial_conn)
         THEN \/ /\ Len(rx) < MaxRx
                 /\ rx' = Append(rx, Line(1, t))
                 /\ sc' = Frame(t, "read", PyNone)
              \/ /\ rx' = rx
                 /\ sc' = Frame(t, "read", PyNone)
         ELSE /\ rx' = rx
              /\ sc' = Frame(t, "ret", PyNone)
    /\ UNCHANGED <<session, nOpened, closed, okHosts, devSeq, gui, logger, ghost>>
    /\ UNCHANGED aux

\* line 87-88: response = self.serial_conn.readline().decode().strip(): the
\* first buffered line, or '' when the 1 s timeout expires with none
SendRead(t) ==
    /\ sc[t].pc = "read"
    /\ IF Usable(serial_conn)
         THEN IF rx # <<>>
                THEN /\ rx' = Tail(rx)
                     /\ sc' = Frame(t, "ret", Head(rx))
                ELSE /\ rx' = rx
                     /\ sc' = Frame(t, "ret", Line(0, t))
         ELSE /\ rx' = rx
              /\ sc' = Frame(t, "ret", PyNone)
    /\ UNCHANGED <<session, nOpened, closed, okHosts, devSeq, gui, logger, ghost>>
    /\ UNCHANGED aux

\* a response that is not valid UTF-8: decode() raises, line 89-91 returns None
SendReadGarbled(t) ==
    /\ sc[t].pc = "read"
    /\ Usable(serial_conn)
    /\ rx # <<>>
    /\ rx' = Tail(rx)
    /\ sc' = Frame(t, "ret", PyNone)
    /\ UNCHANGED <<session, nOpened, closed, okHosts, devSeq, gui, logger, ghost>>
    /\ UNCHANGED aux


\* ---- the foreground thread: ConnectionManager calls ----------------------
\* SolderingStationGUI.connect_serial, line 554: connect_serial(port) is called
CallConnectSerial ==
    /\ gpc = "idle"
    /\ gpc' = "cs_open"
    /\ UNCHANGED <<session, transport, sc, garg, logger, ghost>>
    /\ UNCHANGED aux

\* line 39: self.serial_conn = serial.Serial(port, baudrate, timeout=1)
ConnectSerialOpen ==
    /\ gpc = "cs_open"
    /\ nOpened < MaxHandles
    /\ nOpened' = nOpened + 1
    /\ serial_conn' = nOpened + 1
    /\ gpc' = "cs_type"
    /\ UNCHANGED <<connection_type, wifi_ip, connected, closed, okHosts, rx, devSeq,
                   sc, garg, logger, ghost>>
    /\ UNCHANGED aux

\* mutant: the transport kind is recorded before the port is opened
ConnectSerialFailTypeSet ==
    /\ gpc = "cs_open"
    /\ connection_type' = "serial"
    /\ gpc' = "ret_False"
    /\ fresh' = NoFresh
    /\ UNCHANGED <<serial_conn, wifi_ip, connected, transport, sc, garg, logger, dclosed>>
    /\ UNCHANGED aux

\* lines 43-45: serial.Serial raises, nothing is assigned, return False
ConnectSerialFail ==
    /\ gpc = "cs_open"
    /\ gpc' = "ret_False"
    /\ fresh' = NoFresh
    /\ UNCHANGED <<session, transport, sc, garg, logger, dclosed>>
    /\ UNCHANGED aux

\* line 40: self.connection_type = 'serial'
ConnectSerialType ==
    /\ gpc = "cs_type"
    /\ connection_type' = "serial"
    /\ gpc' = "cs_flag"
    /\ UNCHANGED <<serial_conn, wifi_ip, connected, transport, sc, garg, logger, ghost>>
    /\ UNCHANGED aux

\* lines 41-42: self.connected = True; return True
ConnectSerialFlag ==
    /\ gpc = "cs_flag"
    /\ connected' = TRUE
    /\ gpc' = "ret_True"
    /\ fresh' = <<serial_conn>>
    /\ UNCHANGED <<connection_type, serial_conn, wifi_ip, transport, sc, garg, logger,
                   dclosed>>
    /\ UNCHANGED aux

\* SolderingStationGUI.connect_wifi, line 563: connect_wifi(ip) is called
CallConnectWifi(host) ==
    /\ gpc = "idle"
    /\ gpc' = "cw_probe"
    /\ garg' = host
    /\ UNCHANGED <<session, transport, sc, logger, ghost>>
    /\ UNCHANGED aux

\* lines 51-53: the probe GET /status answers 200; self.wifi_ip = ip_address
WifiProbeOk(host) ==
    /\ wifi_ip' = host
    /\ okHosts' = okHosts \cup {host}
    /\ gpc' = "cw_type"
    /\ UNCHANGED <<connection_type, serial_conn, connected, nOpened, closed, rx,
                   devSeq, sc, garg, logger, ghost>>
    /\ UNCHANGED aux

\* lines 52, 57-59: a non-200 answer or an exception; return False
WifiProbeFail ==
    /\ gpc' = "ret_False"
    /\ garg' = NoIp
    /\ fresh' = NoFresh
    /\ UNCHANGED <<session, transport, sc, logger, dclosed>>
    /\ UNCHANGED aux

\* mutant: the address is stored whatever status the probe answers
ConnectWifiProbeAnyStatus ==
    /\ gpc = "cw_probe"
    /\ \E http \in {"200", "non200", "raise"} :
           IF http = "200" THEN WifiProbeOk(garg)
           ELSE IF http = "raise" THEN WifiProbeFail
           ELSE /\ wifi_ip' = garg
                /\ gpc' = "cw_type"
                /\ UNCHANGED <<connection_type, serial_conn, connected, transport, sc,
                               garg, logger, ghost, aux>>

ConnectWifiProbe ==
    /\ gpc = "cw_probe"
    /\ \E http \in {"200", "non200", "raise"} :
           IF http = "200" THEN WifiProbeOk(garg) ELSE WifiProbeFail

\* line 54: self.connection_type = 'wifi'
ConnectWifiType ==
    /\ gpc = "cw_type"
    /\ connection_type' = "wifi"
    /\ gpc' = "cw_flag"
    /\ UNCHANGED <<serial_conn, wifi_ip, connected, transport, sc, garg, logger, ghost>>
    /\ UNCHANGED aux

\* lines 55-56: self.connected = True; return True
ConnectWifiFlag ==
    /\ gpc = "cw_flag"
    /\ connected' = TRUE
    /\ gpc' = "ret_True"
    /\ garg' = NoIp
    /\ fresh' = <<None>>
    /\ UNCHANGED <<connection_type, serial_conn, wifi_ip, transport, sc, logger, dclosed>>
    /\ UNCHANGED aux

\* lines 554-558, 563-567: the handler shows the status or the warning
ConnectReturn ==
    /\ gpc \in {"ret_True", "ret_False"}
    /\ gpc' = "idle"
    /\ UNCHANGED <<session, transport, sc, garg, logger, ghost>>
    /\ UNCHANGED aux

\* SolderingStationGUI.disconnect, line 571: disconnect() is called
CallDisconnect ==
    /\ gpc = "idle"
    /\ gpc' = "d_close"
    /\ UNCHANGED <<session, transport, sc, garg, logger, ghost>>
    /\ UNCHANGED aux

\* mutant: the handle is dropped without close()
DisconnectCloseSkipped ==
    /\ gpc = "d_close"
    /\ gpc' = "d_flag"
    /\ UNCHANGED <<session, transport, sc, garg, logger, ghost>>
    /\ UNCHANGED aux

\* lines 63-64: close the serial handle of a serial session; closing a port
\* drops the lines still waiting in its receive buffer
DisconnectClose ==
    /\ gpc = "d_close"
    /\ IF connection_type = "serial" /\ serial_conn # None
         THEN /\ closed' = closed \cup {serial_conn}
              /\ rx' = <<>>
              /\ dclosed' = {serial_conn}
         ELSE UNCHANGED <<closed, rx, dclosed>>
    /\ gpc' = "d_flag"
    /\ UNCHANGED <<session, nOpened, okHosts, devSeq, sc, garg, logger, fresh>>
    /\ UNCHANGED aux

\* line 65: self.connected = False
DisconnectFlag ==
    /\ gpc = "d_flag"
    /\ connected' = FALSE
    /\ gpc' = "d_type"
    /\ UNCHANGED <<connection_type, serial_conn, wifi_ip, transport, sc, garg, logger,
                   ghost>>
    /\ UNCHANGED aux

\* mutant: connection_type is not reset
DisconnectTypeKept ==
    /\ gpc = "d_type"
    /\ gpc' = "d_serial"
    /\ UNCHANGED <<session, transport, sc, garg, logger, ghost>>
    /\ UNCHANGED aux

\* line 66: self.connection_type = None
DisconnectType ==
    /\ gpc = "d_type"
    /\ connection_type' = NoType
    /\ gpc' = "d_serial"
    /\ UNCHANGED <<serial_conn, wifi_ip, connected, transport, sc, garg, logger, ghost>>
    /\ UNCHANGED aux

\* line 67: self.serial_conn = None
DisconnectSerial ==
    /\ gpc = "d_serial"
    /\ serial_conn' = None
    /\ gpc' = "d_ip"
    /\ UNCHANGED <<connection_type, wifi_ip, connected, transport, sc, garg, logger,
                   ghost>>
    /\ UNCHANGED aux

\* line 68: self.wifi_ip = None, and the method returns
DisconnectIp ==
    /\ gpc = "d_ip"
    /\ wifi_ip' = NoIp
    /\ gpc' = "idle"
    /\ fresh' = NoFresh
    /\ dclosed' = {}
    /\ UNCHANGED <<connection_type, serial_conn, connected, transport, sc, garg, logger>>
    /\ UNCHANGED aux

\* start_process / stop_process / toggle_fan / save_profile / load_profile
\* (lines 652, 665, 690, 701, 710): the foreground calls send_command
CallSendCommand(e) ==
    /\ gpc = "idle"
    /\ gpc' = "send"
    /\ sc' = [sc EXCEPT !["gui"] = [pc |-> "check", endpoint |-> e, ip |-> NoIp,
                                    ret |-> PyNone]]
    /\ UNCHANGED <<session, transport, garg, logger, ghost>>
    /\ UNCHANGED aux

\* send_command has returned to the foreground handler (`if result:`)
SendCommandReturn ==
    /\ gpc = "send"
    /\ sc["gui"].pc = "ret"
    /\ gpc' = "idle"
    /\ sc' = [sc EXCEPT !["gui"] = NoCall]
    /\ UNCHANGED <<session, transport, garg, logger, ghost>>
    /\ UNCHANGED aux

\* ---- DataLogger ------------------------------------------------------------
\* start_logging, line 716: QThread.start() starts run() in a new thread; it
\* does nothing while the thread is still running
StartLogging ==
    /\ gpc = "idle"
    /\ ppc # "crashed"
    /\ ppc' = IF ppc = "idle" THEN "run" ELSE ppc
    /\ stopped' = FALSE
    /\ UNCHANGED <<session, transport, sc, gui, running, status, log_data, emitted,
                   failed, ghost>>
    /\ UNCHANGED aux

\* stop_logging, line 723 -> DataLogger.stop, line 121: self.running = False
StopLogging ==
    /\ gpc = "idle"
    /\ running' = FALSE
    /\ stopped' = TRUE
    /\ UNCHANGED <<session, transport, sc, gui, ppc, status, log_data, emitted,
                   failed, ghost>>
    /\ UNCHANGED aux

\* line 107: self.running = True
RunBegin ==
    /\ ppc = "run"
    /\ running' = TRUE
    /\ ppc' = "while"
    /\ UNCHANGED <<session, transport, sc, gui, status, log_data, emitted, stopped,
                   failed, ghost>>
    /\ UNCHANGED aux

\* line 108: while self.running; leaving the loop ends run() and the thread
RunWhile ==
    /\ ppc = "while"
    /\ ppc' = IF running THEN "if_conn" ELSE "idle"
    /\ UNCHANGED <<session, transport, sc, gui, running, status, log_data, emitted,
                   stopped, failed, ghost>>
    /\ UNCHANGED aux

\* lines 109-110: if self.connection_manager.connected: send_command('status')
RunIfConnected ==
    /\ ppc = "if_conn"
    /\ IF connected
         THEN /\ ppc' = "send"
              /\ sc' = [sc EXCEPT !["poller"] = [pc |-> "check", endpoint |-> "status",
                                                 ip |-> NoIp, ret |-> PyNone]]
         ELSE /\ ppc' = "sleep"
              /\ sc' = sc
    /\ UNCHANGED <<session, transport, gui, running, status, log_data, emitted,
                   stopped, failed, ghost>>
    /\ UNCHANGED aux

\* lines 110-111: status = <the value returned>; if status:
RunIfStatus ==
    /\ ppc = "send"
    /\ sc["poller"].pc = "ret"
    /\ status' = sc["poller"].ret
    /\ sc' = [sc EXCEPT !["poller"] = NoCall]
    /\ ppc' = IF Truthy(sc["poller"].ret) THEN "emit" ELSE "sleep"
    /\ failed' = ~Truthy(sc["poller"].ret)
    /\ UNCHANGED <<session, transport, gui, running, log_data, emitted, stopped, ghost>>
    /\ UNCHANGED aux

\* line 112: self.data_received.emit(status). The signal is declared
\* pyqtSignal(dict) (line 97): emit() with a value that is not a dict raises
\* TypeError, which nothing in run() catches, and the thread ends.
RunEmit ==
    /\ ppc = "emit"
    /\ IF status.kind = "dict"
         THEN /\ emitted' = Append(emitted, status)
              /\ ppc' = "append"
         ELSE /\ emitted' = emitted
              /\ ppc' = "crashed"
    /\ UNCHANGED <<session, transport, sc, gui, running, status, log_data, stopped,
                   failed, ghost>>
    /\ UNCHANGED aux

\* mutant: the entry is appended only while the logger is still running
RunAppendIfRunning ==
    /\ ppc = "append"
    /\ log_data' = IF running THEN Append(log_data, status) ELSE log_data
    /\ ppc' = "sleep"
    /\ UNCHANGED <<session, transport, sc, gui, running, status, emitted, stopped,
                   failed, ghost>>
    /\ UNCHANGED aux

\* lines 113-116: self.log_data.append({'timestamp': ..., 'data': status})
RunAppend ==
    /\ ppc = "append"
    /\ log_data' = Append(log_data, status)
    /\ ppc' = "sleep"
    /\ UNCHANGED <<session, transport, sc, gui, running, status, emitted, stopped,
                   failed, ghost>>
    /\ UNCHANGED aux

\* line 117: time.sleep(0.3)
RunSleep ==
    /\ ppc = "sleep"
    /\ ppc' = "while"
    /\ status' = PyNone
    /\ UNCHANGED <<session, transport, sc, gui, running, log_data, emitted, stopped,
                   failed, ghost>>
    /\ UNCHANGED aux

\* ---- the system ------------------------------------------------------------
SendStep(t) ==
    \/ SendCheck(t)
    \/ SendIsWifi(t)
    \/ SendUrl(t)
    \/ SendRequest(t)
    \/ SendHttpOk(t)
    \/ SendHttpOdd(t)
    \/ SendHttpFail(t)
    \/ SendIsSerial(t)
    \/ SendWrite(t)
    \/ SendRead(t)
    \/ SendReadGarbled(t)

Next ==
    \/ CallConnectSerial
    \/ ConnectSerialOpen
    \/ ConnectSerialFail
    \/ ConnectSerialType
    \/ ConnectSerialFlag
    \/ \E host \in Hosts : CallConnectWifi(host)
    \/ ConnectWifiProbe
    \/ ConnectWifiType
    \/ ConnectWifiFlag
    \/ ConnectReturn
    \/ CallDisconnect
    \/ DisconnectClose
    \/ DisconnectFlag
    \/ DisconnectType
    \/ DisconnectSerial
    \/ DisconnectIp
    \/ \E e \in Endpoints : CallSendCommand(e)
    \/ SendCommandReturn
    \/ StartLogging
    \/ StopLogging
    \/ RunBegin
    \/ RunWhile
    \/ RunIfConnected
    \/ RunIfStatus
    \/ RunEmit
    \/ RunAppend
    \/ RunSleep
    \/ \E t \in Threads : SendStep(t)

Spec == Init /\ [][Next]_vars

\* The DataLogger thread is an operating-system thread: it is scheduled as
\* long as it has a step to take, and a request in flight ends within the
\* transport timeout (1 s serial, 2 s HTTP). The foreground may stay idle.
PollerStep ==
    \/ RunBegin
    \/ RunWhile
    \/ RunIfConnected
    \/ RunIfStatus
    \/ RunEmit
    \/ RunAppend
    \/ RunSleep
    \/ SendStep("poller")

FairSpec == Spec /\ WF_vars(PollerStep)



\* ---- export_log (foreground thread), lines 729-747 ------------------------
\* The handler runs on the foreground thread while the DataLogger thread
\* keeps running: line 741 iterates over data_logger.log_data itself. The
\* destination is a new file (its default name carries the time of day).

\* line 742-743: the CSV line written for a log entry (the values of sample n)
Row(entry) == entry.n

\* lines 731-735: nothing to export, or the file dialog opens
CallExportLog ==
    /\ gpc = "idle"
    /\ file' = NoFile
    /\ xi' = 0
    /\ IF log_data = <<>>
       THEN /\ xres' = "empty"
            /\ xlog' = <<>>
            /\ gpc' = gpc
       ELSE /\ xres' = "-"
            /\ xlog' = log_data
            /\ gpc' = "x_dialog"
    /\ UNCHANGED <<session, transport, sc, garg, logger, ghost, profile, station>>

\* lines 735-737: the user picks a file name or cancels the dialog
ExportDialog ==
    /\ gpc = "x_dialog"
    /\ \E picked \in BOOLEAN :
          IF picked THEN gpc' = "x_open" /\ xres' = xres
                    ELSE gpc' = "idle" /\ xres' = "cancelled"
    /\ UNCHANGED <<session, transport, sc, garg, logger, ghost, profile, station, file, xi, xlog>>

\* line 739: open(filename, 'w') creates the file, or raises (lines 746-747)
ExportOpen ==
    /\ gpc = "x_open"
    /\ \E raised \in BOOLEAN :
          IF raised THEN gpc' = "idle" /\ xres' = "failed" /\ file' = file
                    ELSE gpc' = "x_header" /\ xres' = xres
                         /\ file' = [file EXCEPT !.exists = TRUE]
    /\ UNCHANGED <<session, transport, sc, garg, logger, ghost, profile, station, xi, xlog>>

\* line 740: the header line is written, or the write raises
ExportHeader ==
    /\ gpc = "x_header"
    /\ \E raised \in BOOLEAN :
          IF raised THEN gpc' = "idle" /\ xres' = "failed" /\ file' = file
                    ELSE gpc' = "x_rows" /\ xres' = xres
                         /\ file' = [file EXCEPT !.header = TRUE]
    /\ UNCHANGED <<session, transport, sc, garg, logger, ghost, profile, station, xi, xlog>>

\* lines 741-743: the next entry of log_data, as the list is now, is formatted
\* and written; formatting or writing may raise, and leaving the with block
\* closes the file with what was written so far. Line 745 after the last entry.
ExportRow ==
    /\ gpc = "x_rows"
    /\ IF xi < Len(log_data)
       THEN \E raised \in BOOLEAN :
              IF raised THEN gpc' = "idle" /\ xres' = "failed" /\ file' = file /\ xi' = xi
                        ELSE /\ gpc' = gpc
                             /\ xres' = xres
                             /\ file' = [file EXCEPT !.rows = Append(@, Row(log_data[xi + 1]))]
                             /\ xi' = xi + 1
       ELSE gpc' = "idle" /\ xres' = "ok" /\ file' = file /\ xi' = xi
    /\ UNCHANGED <<session, transport, sc, garg, logger, ghost, profile, station, xlog>>

\* the session over WiFi, the DataLogger thread and the export
NextLog ==
    \/ \E host \in Hosts : CallConnectWifi(host)
    \/ ConnectWifiProbe
    \/ ConnectWifiType
    \/ ConnectWifiFlag
    \/ ConnectReturn
    \/ StartLogging
    \/ StopLogging
    \/ RunBegin
    \/ RunWhile
    \/ RunIfConnected
    \/ RunIfStatus
    \/ RunEmit
    \/ RunAppend
    \/ RunSleep
    \/ SendCheck("poller")
    \/ SendIsWifi("poller")
    \/ SendUrl("poller")
    \/ SendRequest("poller")
    \/ SendHttpOk("poller")
    \/ SendHttpOdd("poller")
    \/ SendHttpFail("poller")
    \/ CallExportLog
    \/ ExportDialog
    \/ ExportOpen
    \/ ExportHeader
    \/ ExportRow

SpecLog == Init /\ [][NextLog]_vars

\* ---- the profile handlers of the window (foreground thread) ---------------
\* The session is a WiFi session here: 'preset' is an HTTP endpoint, the
\* device stores the JSON object of a POST and answers a GET with the stored
\* object. send_command returns response.json() on HTTP 200 and None on any
\* other answer, a timeout or a refused connection (lines 76-91).

\* lines 456-524 add_phase_widget(phase_data): the exception it ends with.
\* It reads phase_data["name"] (466), ["target"] (473), ["duration"] (480) and
\* then calls QGridLayout.addLayout with a QSpinBox (481), which PyQt5 refuses
\* with TypeError: line 524, the only place that adds a widget to
\* phases_layout, is never reached.
add_phase_widget(phase_data) ==
    IF {"name", "target", "duration"} \subseteq DOMAIN phase_data
    THEN "TypeError" ELSE "KeyError"

\* the forms a profile can be written into: name, limit and up to MaxPhases
\* phase widgets; the profile handlers are applied to each of them
PhaseLists == UNION {[1..n -> Widgets] : n \in 0..MaxPhases}

FormInit ==
    /\ profile_name \in Names
    /\ temp_limit \in Limits
    /\ phases \in PhaseLists
    /\ preset \in DevicePresets
    /\ msg = "-"
    /\ sent = NoJson
    /\ saved = NoForm
    /\ before = NoForm
    /\ got = NoJson

\* the user types another name into profile_name_input
EditName(name) ==
    /\ gpc = "idle"
    /\ name # profile_name
    /\ profile_name' = name
    /\ msg' = "-"
    /\ saved' = NoForm
    /\ before' = NoForm
    /\ got' = NoJson
    /\ UNCHANGED <<temp_limit, phases, preset, sent>>
    /\ UNCHANGED <<session, transport, sc, gui, logger, ghost, export, station>>

\* the user sets another value in temp_limit_spin
EditLimit(limit) ==
    /\ gpc = "idle"
    /\ limit # temp_limit
    /\ temp_limit' = SetValue(limit)
    /\ msg' = "-"
    /\ saved' = NoForm
    /\ before' = NoForm
    /\ got' = NoJson
    /\ UNCHANGED <<profile_name, phases, preset, sent>>
    /\ UNCHANGED <<session, transport, sc, gui, logger, ghost, export, station>>

\* line 534: the add button calls add_phase_widget() with the default phase
AddPhase ==
    /\ gpc = "idle"
    /\ msg' = add_phase_widget(NewPhase)
    /\ before' = NoForm
    /\ got' = NoJson
    /\ UNCHANGED <<profile_name, temp_limit, phases, preset, sent, saved>>
    /\ UNCHANGED <<session, transport, sc, gui, logger, ghost, export, station>>

\* lines 616-621 remove_phase: the last widget is taken out, if there is one
remove_phase ==
    /\ gpc = "idle"
    /\ IF Len(phases) > 0
       THEN /\ phases' = SubSeq(phases, 1, Len(phases) - 1)
            /\ saved' = NoForm
       ELSE UNCHANGED <<phases, saved>>
    /\ msg' = "-"
    /\ before' = NoForm
    /\ got' = NoJson
    /\ UNCHANGED <<profile_name, temp_limit, preset, sent>>
    /\ UNCHANGED <<session, transport, sc, gui, logger, ghost, export, station>>

\* lines 623-656 save_profile
save_profile ==
    /\ gpc = "idle"
    /\ before' = NoForm
    /\ got' = NoJson
    /\ IF ~connected
       THEN /\ msg' = "not_connected"
            /\ UNCHANGED <<preset, sent, saved>>
       ELSE \E http \in {"200", "fail"} :
              IF http = "200"
              THEN /\ preset' = ProfileJson(profile_name, temp_limit, phases)
                   /\ sent' = <<ProfileJson(profile_name, temp_limit, phases)>>
                   /\ saved' = <<Form>>
                   /\ msg' = "saved"
              ELSE /\ msg' = "save_failed"
                   /\ UNCHANGED <<preset, sent, saved>>
    /\ UNCHANGED <<profile_name, temp_limit, phases>>
    /\ UNCHANGED <<session, transport, sc, gui, logger, ghost, export, station>>

\* lines 658-682 load_profile. Lines 671-674 empty phases_layout and every
\* call of add_phase_widget (line 678) raises, so the form ends without
\* phases; the exception of the first phase leaves load_profile.
load_profile ==
    /\ gpc = "idle"
    /\ IF ~connected
       THEN /\ msg' = "not_connected"
            /\ before' = NoForm
            /\ got' = NoJson
            /\ UNCHANGED <<profile_name, temp_limit, phases>>
       ELSE \E http \in {"200", "fail"} :
              IF http = "200"
              THEN /\ before' = <<Form>>
                   /\ got' = <<preset>>
                   /\ profile_name' = Get(preset, "name", "")
                   /\ temp_limit' = SetValue(Get(preset, "overLimitC", LimitDefault))
                   /\ phases' = <<>>
                   /\ msg' = IF Get(preset, "phases", <<>>) = <<>>
                             THEN "loaded"
                             ELSE add_phase_widget(Get(preset, "phases", <<>>)[1])
              ELSE /\ msg' = "load_failed"
                   /\ before' = NoForm
                   /\ got' = NoJson
                   /\ UNCHANGED <<profile_name, temp_limit, phases>>
    /\ UNCHANGED <<preset, sent, saved>>
    /\ UNCHANGED <<session, transport, sc, gui, logger, ghost, export, station>>

InitProfile ==
    /\ ManagerInit
    /\ ExportInit
    /\ FormInit
    /\ StationInit

NextProfile ==
    \/ \E host \in Hosts : CallConnectWifi(host)
    \/ ConnectWifiProbe
    \/ ConnectWifiType
    \/ ConnectWifiFlag
    \/ ConnectReturn
    \/ CallDisconnect
    \/ DisconnectClose
    \/ DisconnectFlag
    \/ DisconnectType
    \/ DisconnectSerial
    \/ DisconnectIp
    \/ \E name \in Names : EditName(name)
    \/ \E limit \in Limits : EditLimit(limit)
    \/ AddPhase
    \/ remove_phase
    \/ save_profile
    \/ load_profile

SpecProfile == InitProfile /\ [][NextProfile]_vars



\* ---- app_py: connect_to_station and the temperature update ----------------
\* str.split(','): the fields between the commas, one more than commas
RECURSIVE Split(_)
Split(s) ==
    IF s = <<>> THEN << <<>> >>
    ELSE LET rest == Split(Tail(s))
         IN  IF Head(s) = "," THEN << <<>> >> \o rest
                              ELSE << <<Head(s)>> \o rest[1] >> \o Tail(rest)

\* connection.py lines 30-34, 36-41: send and receive act on the handle that
\* connection_type names, if it is set
Linked ==
    \/ conn_type = "serial" /\ conn_serial # NoHandle
    \/ conn_type = "wifi" /\ wifi_conn # NoHandle

\* connection.py lines 36-41 receive(), reading from the lines in `buf`:
\* readline() returns the next line with its newline, or "" when none comes
\* within the timeout of 1 s; recv() returns what the station sent
receive(buf) ==
    IF Linked /\ buf # <<>> THEN Head(buf) \o <<LF>> ELSE <<>>

\* mutant: three or more fields are accepted
ParsedAtLeast3(data) ==
    IF data # <<>> /\ Len(Split(data)) >= 3
    THEN <<Split(data)[1], Split(data)[2], Split(data)[3]>>
    ELSE temps

\* temperature.py lines 26-31: the three values after parsing `data`
Parsed(data) ==
    IF data # <<>> /\ Len(Split(data)) = 3
    THEN <<Split(data)[1], Split(data)[2], Split(data)[3]>>
    ELSE temps

\* gui.py lines 80-89: a radio button sets the connection type
set_connection_type(kind) ==
    /\ apc = "idle"
    /\ conn_type # kind
    /\ conn_type' = kind
    /\ UNCHANGED <<conn_serial, wifi_conn, temps, inbuf, apc, upd, io>>
    /\ UNCHANGED <<session, transport, sc, gui, logger, ghost, export, profile>>

\* gui.py lines 91-107 up to the call of update_temperatures; connection.py
\* lines 13-28: connect_wifi stores the new socket before connect() may raise
connect_to_station ==
    /\ apc = "idle"
    /\ conn_type # NoType
    /\ \E success \in BOOLEAN :
          /\ IF conn_type = "serial"
             THEN /\ conn_serial' = IF success THEN "open" ELSE conn_serial
                  /\ wifi_conn' = wifi_conn
             ELSE /\ wifi_conn' = IF success THEN "connected" ELSE "unconnected"
                  /\ conn_serial' = conn_serial
          /\ apc' = IF success THEN "get" ELSE "idle"
          /\ upd' = IF success THEN (IF inbuf = <<>> THEN "clean" ELSE "dirty") ELSE upd
    /\ UNCHANGED <<conn_type, temps, inbuf, io>>
    /\ UNCHANGED <<session, transport, sc, gui, logger, ghost, export, profile>>

\* gui.py line 120 -> commands.py lines 47-48: send('GET_TEMP'), to which the
\* station answers with one line, and receive(), whose result is dropped
get_temperature_data ==
    /\ apc = "get"
    /\ inbuf' = IF Linked THEN Tail(Append(inbuf, Reading)) ELSE inbuf
    /\ apc' = "update"
    /\ UNCHANGED <<conn_type, conn_serial, wifi_conn, temps, upd, io>>
    /\ UNCHANGED <<session, transport, sc, gui, logger, ghost, export, profile>>

\* gui.py line 121 -> temperature.py lines 19-31 update_temperatures; over
\* WiFi recv() waits until the station has sent something
update_temperatures ==
    /\ apc = "update"
    /\ conn_type = "wifi" => inbuf # <<>>
    /\ top_temp' = Parsed(receive(inbuf))[1]
    /\ bottom_temp' = Parsed(receive(inbuf))[2]
    /\ preheat_temp' = Parsed(receive(inbuf))[3]
    /\ inbuf' = IF Linked /\ inbuf # <<>> THEN Tail(inbuf) ELSE inbuf
    /\ apc' = "idle"
    /\ UNCHANGED <<conn_type, conn_serial, wifi_conn, upd, io>>
    /\ UNCHANGED <<session, transport, sc, gui, logger, ghost, export, profile>>

\* the link that connection_type names is open: a serial port that was
\* opened, a socket whose connect() succeeded
Open ==
    \/ conn_type = "serial" /\ conn_serial = "open"
    \/ conn_type = "wifi" /\ wifi_conn = "connected"

\* connection.py lines 30-34 send(message): nothing is written when
\* connection_type names no handle; sendall() on a socket whose connect()
\* failed raises OSError, which neither send nor its callers catch
send ==
    IF ~Linked THEN "nothing" ELSE IF Open THEN "written" ELSE "OSError"

\* gui.py lines 109-112 -> commands.py lines 17-30: the profile of the combo
\* box is one of Commands.profiles, and its three set-points are sent
start_soldering ==
    /\ apc = "idle"
    /\ io' = [handler |-> "start_soldering", did |-> send]
    /\ UNCHANGED <<conn_type, conn_serial, wifi_conn, temps, inbuf, apc, upd>>
    /\ UNCHANGED <<session, transport, sc, gui, logger, ghost, export, profile>>

\* gui.py lines 114-116 -> commands.py lines 32-38: 'T', 'U', 'H' are sent
stop_soldering ==
    /\ apc = "idle"
    /\ io' = [handler |-> "stop_soldering", did |-> send]
    /\ UNCHANGED <<conn_type, conn_serial, wifi_conn, temps, inbuf, apc, upd>>
    /\ UNCHANGED <<session, transport, sc, gui, logger, ghost, export, profile>>

\* the station sends a line it was not asked for, over an open link
StationSends(line) ==
    /\ Open
    /\ Len(inbuf) < MaxPending
    /\ inbuf' = Append(inbuf, line)
    /\ upd' = IF apc # "idle" THEN "dirty" ELSE upd
    /\ UNCHANGED <<conn_type, conn_serial, wifi_conn, temps, apc, io>>
    /\ UNCHANGED <<session, transport, sc, gui, logger, ghost, export, profile>>

NextTemp ==
    \/ \E kind \in {"serial", "wifi"} : set_connection_type(kind)
    \/ connect_to_station
    \/ get_temperature_data
    \/ update_temperatures
    \/ start_soldering
    \/ stop_soldering
    \/ \E line \in Lines : StationSends(line)

SpecTemp == Init /\ [][NextTemp]_vars


\* ---- the claims ------------------------------------------------------------
InFlight(t) == sc[t].pc \in {"read", "http_wait"}
GotLine(t) == sc[t].pc = "ret" /\ sc[t].ret.kind = "str" /\ sc[t].ret.n # 0
DisconnectPcs == {"d_close", "d_flag", "d_type", "d_serial", "d_ip"}
LoopPcs == {"while", "if_conn", "send", "emit", "append", "sleep"}
Cleared == session = <<NoType, None, NoIp, FALSE>>

\* C1: two send_command calls are never both between their transport write
\* (or HTTP request) and their response read, and on the serial link every
\* call reads the line that answers its own command.
C1_TransportExclusive ==
    /\ ~(InFlight("gui") /\ InFlight("poller"))
    /\ \A t \in Threads : GotLine(t) => sc[t].ret.for = t

\* C2: once stop() has returned, no further sample is emitted on
\* data_received and no further entry is appended to log_data.
C2_NoSampleAfterStop ==
    [][stopped => (emitted' = emitted /\ log_data' = log_data)]_vars

\* C3: connected = True implies that connection_type is set and that the
\* handle of that type is non-null and was stored by a connect that succeeded
\* (a serial port that was opened, an address whose probe answered 200).
C3_ConnectedHasHandle ==
    connected =>
        /\ connection_type \in {"serial", "wifi"}
        /\ connection_type = "serial" => serial_conn \in 1..nOpened
        /\ connection_type = "wifi" => wifi_ip \in okHosts

C3_Witness ==
    /\ connected
    /\ connection_type = "wifi"
    /\ serial_conn # None
    /\ gpc = "idle"

\* C4: a connect_serial or connect_wifi that fails returns False and leaves
\* connection_type, serial_conn, wifi_ip and connected as they were, and
\* False is returned by nothing but a failed open or probe.
C4_FailedConnectKeepsState ==
    [][(gpc' = "ret_False" /\ gpc # "ret_False")
         => (gpc \in {"cs_open", "cw_probe"} /\ session' = session)]_vars

C4_Witness ==
    /\ gpc = "ret_False"
    /\ connected
    /\ connection_type = "serial"

\* C5: when disconnect() returns right after a connect that returned True,
\* connected is False, no handle or address is retained, and the handles
\* closed by the disconnect are exactly the handles the connect opened.
C5_ConnectThenDisconnectReleases ==
    [][(gpc = "d_ip" /\ gpc' = "idle" /\ fresh # NoFresh)
         => /\ connected' = FALSE
            /\ connection_type' = NoType
            /\ serial_conn' = None
            /\ wifi_ip' = NoIp
            /\ dclosed = {fresh[1]} \ {None}
            /\ dclosed \subseteq closed']_vars

C5_Witness ==
    /\ gpc = "d_ip"
    /\ fresh # NoFresh
    /\ fresh[1] # None
    /\ dclosed = {fresh[1]}
    /\ ~connected

\* C6: disconnect() always runs to completion, leaves connected = False and
\* connection_type, serial_conn and wifi_ip None, and a disconnect() called in
\* that state changes nothing and closes nothing.
C6_DisconnectIdempotent ==
    /\ [][(gpc = "d_ip" /\ gpc' = "idle") => Cleared']_vars
    /\ [][(gpc \in DisconnectPcs /\ Cleared) => (Cleared' /\ closed' = closed)]_vars
    /\ [](gpc \in DisconnectPcs =>
            ENABLED (DisconnectClose \/ DisconnectFlag \/ DisconnectType
                       \/ DisconnectSerial \/ DisconnectIp))

C6_Witness ==
    /\ gpc = "d_flag"
    /\ Cleared
    /\ closed # {}

\* C7: a send_command that finds the session disconnected returns None at
\* once: no write, read or HTTP request, session and transport unchanged.
C7_DisconnectedFailsFast ==
    [][\A t \in Threads :
         (sc[t].pc = "check" /\ ~connected /\ sc'[t] # sc[t])
           => /\ sc'[t].pc = "ret"
              /\ sc'[t].ret = PyNone
              /\ session' = session
              /\ transport' = transport]_vars

\* the session was never connected, so the call can only have failed fast
C7_Witness ==
    /\ sc["gui"].pc = "ret"
    /\ sc["gui"].ret = PyNone
    /\ ~connected
    /\ nOpened = 0
    /\ okHosts = {}
    /\ rx = <<>>

\* C8: no step of send_command and no step of the poller changes connected,
\* connection_type or the handle, however many requests fail in a row.
C8_FailureKeepsSession ==
    [][(sc' # sc \/ ppc' # ppc) => session' = session]_vars

C8_Witness ==
    /\ failed
    /\ sc["poller"].pc = "ret"
    /\ sc["poller"].ret = PyNone
    /\ connected
    /\ connection_type = "wifi"
    /\ wifi_ip \in okHosts
    /\ gpc = "idle"

\* C9: log_data holds exactly the samples emitted on data_received, in the
\* same order (the entry of a sample is appended right after its emission),
\* and a poll that returns no sample emits nothing and appends nothing.
C9_LogMirrorsStream ==
    /\ [](IF ppc = "append" THEN emitted = Append(log_data, status)
                            ELSE emitted = log_data)
    /\ [][(emitted' # emitted \/ log_data' # log_data)
            => (Truthy(status) /\ ppc \in {"emit", "append"})]_vars

C9_Witness ==
    /\ Len(log_data) >= 2
    /\ log_data = emitted
    /\ log_data[1] # log_data[2]
    /\ ppc = "sleep"

\* C10: the only transition of the DataLogger thread out of its loop is the
\* while test reading running = False, which only stop() sets.
C10_LoopEndsOnlyByStop ==
    [][(ppc \in LoopPcs /\ ppc' \notin LoopPcs) => (ppc = "while" /\ ~running)]_vars


\* C11: once stop() has returned on a started poller, the thread leaves its
\* loop (unless logging is started again), also when stop() was called before
\* the thread executed the first line of run(); stop() itself never waits.
C11_StopEndsLoop ==
    /\ [](stopped => <>(ppc \in {"idle", "crashed"} \/ ~stopped))
    /\ [](gpc = "idle" => ENABLED StopLogging)

\* the keys a complete profile JSON carries, and those of each of its phases
ProfileKeys == {"name", "overLimitC", "phases"}
PhaseKeys == {"name", "targetC", "seconds", "Kp", "Ki", "useTop", "useBottom", "useIR"}
Incomplete(d) ==
    \/ ~(ProfileKeys \subseteq DOMAIN d)
    \/ \E i \in DOMAIN Get(d, "phases", <<>>) : ~(PhaseKeys \subseteq DOMAIN d.phases[i])

C13_LoadRejectsIncomplete ==
    (got # NoJson /\ Incomplete(got[1])) => (Form = before[1] /\ msg # "loaded")

\* C14: the profile JSON the device received with a save has at least one phase.
C14_SentPhasesNonEmpty ==
    sent # NoJson => Len(sent[1].phases) > 0

\* C15: every row in the file is the row of the entry at the same position of
\* the log as it was when the export began, and a finished export has written
\* exactly those entries.
C15_ExportWritesSnapshot ==
    /\ Len(file.rows) <= Len(xlog)
    /\ \A i \in 1..Len(file.rows) : i <= Len(xlog) => file.rows[i] = Row(xlog[i])
    /\ (xres = "ok" => Len(file.rows) = Len(xlog))

\* C16: after a failed export the file does not hold the header followed by
\* fewer rows than there were entries to export.
C16_NoPartialFile ==
    xres = "failed" => ~(file.header /\ Len(file.rows) < Len(xlog))

\* C17: while disconnect() runs, a send_command call of the DataLogger thread
\* that is past its connected check still has a step to take until it returns,
\* it returns None or a response, the response is not one that ends the
\* DataLogger thread (run() emits it on a signal that takes a dict only), and
\* connected is False when disconnect() returns.
C17_DisconnectSafeInFlight ==
    /\ [][(gpc \in DisconnectPcs /\ InFlight("poller") /\ sc'["poller"].pc = "ret")
            => (~Truthy(sc'["poller"].ret) \/ sc'["poller"].ret.kind = "dict")]_vars
    /\ [](\A t \in Threads : sc[t].pc \notin {"none", "ret"} => ENABLED SendStep(t))
    /\ [][(gpc = "d_ip" /\ gpc' # "d_ip") => ~connected']_vars

\* C18: between two states in which the session is connected, the transport
\* kind, the address and the serial handle are the same.
C18_ConfigFixedWhileConnected ==
    [][(connected /\ connected')
         => (connection_type' = connection_type /\ wifi_ip' = wifi_ip
             /\ serial_conn' = serial_conn)]_vars

Commas(data) == Cardinality({i \in DOMAIN data : data[i] = ","})
Joined(t) == t[1] \o <<",">> \o t[2] \o <<",">> \o t[3]
NoComma(field) == \A i \in DOMAIN field : field[i] # ","
Strip(field) == SelectSeq(field, LAMBDA c : c # LF)

\* C19: a call of Temperature.update_temperatures that receives text with
\* exactly two commas stores the text before the first comma, between the
\* commas and after the second, in top_temp, bottom_temp, preheat_temp; with
\* any other text, or none, the three values stay; nothing else changes them.
C19_UpdateOnlyOnThreeFields ==
    /\ [][(apc = "update" /\ apc' = "idle")
            => IF Commas(receive(inbuf)) = 2
               THEN /\ Joined(temps') = receive(inbuf)
                    /\ \A k \in 1..3 : NoComma(temps'[k])
               ELSE temps' = temps]_vars
    /\ [][temps' # temps => apc = "update"]_vars

\* the line ",1," was parsed: three fields, the first and the last one empty
C19_Witness ==
    /\ apc = "idle"
    /\ top_temp = <<>>
    /\ bottom_temp = <<"1">>
    /\ preheat_temp = <<LF>>

\* C20: when the update of the window has run with nothing to read but the
\* station's answer to its GET_TEMP, the Temperature object holds the three
\* fields of that answer (the newline that ends the line aside).
C20_UpdateShowsAnswer ==
    (apc = "idle" /\ upd = "clean")
      => /\ top_temp = Split(Reading)[1]
         /\ bottom_temp = Split(Reading)[2]
         /\ Strip(preheat_temp) = Split(Reading)[3]

\* C21: a step taken while connected is False adds no sample to the stream
\* of data_received and no entry to log_data.
C21_NoTelemetryWhileDisconnected ==
    [][~connected => (emitted' = emitted /\ log_data' = log_data)]_vars

\* C22: when no handler is running and the session is in the state that
\* disconnect() leaves, every serial handle that was opened has been closed.
C22_NoHandleLeak ==
    (gpc = "idle" /\ Cleared) => \A h \in 1..nOpened : h \in closed

\* C23: a connect that returns False (the window stays idle) leaves both
\* handle fields as they were, and no send() reaches a socket whose connect()
\* has failed.
C23_IoOnlyOnConnectedHandle ==
    /\ [][(apc = "idle" /\ apc' = "idle")
            => (conn_serial' = conn_serial /\ wifi_conn' = wifi_conn)]_vars
    /\ [](io.did # "OSError")

====
